---- MODULE Spec2Model ----
(***************************************************************************)
(* The data-access layer of the agent marketplace (database/db.go) as a    *)
(* state machine over the relational store it queries.                     *)
(*                                                                         *)
(* The store is the tables agents, analytics_tracker and featured_agent.   *)
(* Text is a sequence of symbols (each symbol a string), so that a value   *)
(* formatted into query text and the store's reading of that text are two  *)
(* separate computations.                                                  *)
(***************************************************************************)
EXTENDS Integers, Sequences, FiniteSets, TLC

VARIABLES
    agents,      \* table agents: the committed rows, visible to every reader
    tracker,     \* table analytics_tracker: rows [agent_id, downloads]
    featured,    \* table featured_agent: rows [agent_id, featured_categories, is_active]
    clock,       \* the wall clock time.Now() reads
    nextID,      \* the next identifier uuid.New() hands out
    sub,         \* the frame of the SubmitAgent call in flight
    tx,          \* the rows written inside the open transaction, not yet committed
    call,        \* the frame of the two-query read in flight (page query done, count pending)
    ret          \* what the most recent call returned

vars == <<agents, tracker, featured, clock, nextID, sub, tx, call, ret>>

-----------------------------------------------------------------------------
(* Bounds *)

MaxAgents == 2       \* SubmitAgent calls over a behaviour
MaxClock == 2        \* last clock value
MaxDrift == 1        \* clock advance between two time.Now() reads of one call
MaxDownloads == 2    \* largest download aggregate
MaxPage == 2         \* largest page number requested
MaxPageSize == 2     \* largest page size requested
MaxCreated == 1      \* latest created_at in the tables the paged reads start from

-----------------------------------------------------------------------------
(* Values *)

PENDING == "PENDING"
APPROVED == "APPROVED"
REJECTED == "REJECTED"
SubmissionStatus == {PENDING, APPROVED, REJECTED}

Null == <<"NULL">>

\* Category and keyword values are text: sequences of symbols.
CatA == <<"a">>
CatB == <<"b">>
KeyK == <<"k">>

\* AddAgentRequest values: graph name, keywords, categories, graph description
\* (the description as the lexemes the store's text engine derives from it).
Requests ==
    { [name |-> <<"B", "o">>, keywords |-> {KeyK}, categories |-> {CatA},
       description |-> {<<"f", "o">>, <<"b">>}],
      [name |-> <<"h">>, keywords |-> {}, categories |-> {CatB},
       description |-> {<<"x">>}] }

\* The columns of table agents.
AgentsColumns ==
    <<"id", "name", "description", "author", "keywords", "categories", "graph",
      "version", "created_at", "updated_at", "submission_date",
      "submission_status", "download_count", "search">>

NoRet == [op |-> "none", err |-> "", rows |-> <<>>, total |-> 0, args |-> [id |-> 0]]
Idle == [pc |-> "idle", cancelled |-> FALSE]
NoCall == [pc |-> "idle"]

-----------------------------------------------------------------------------
(* The store *)

RowsByID(table, id) == {r \in table : r.id = id}

\* rows.Scan / row.Scan: the number of selected columns must equal the number
\* of destinations.
Scan(columns, ndest) == Len(columns) = ndest

\* The insert issued outside the transaction: the row is visible at once.
InsertRowAutocommit(table, pending, row) ==
    [table |-> table \cup {row}, pending |-> pending]

\* tx.Exec(INSERT ...): the row is written inside the transaction.
InsertRow(table, pending, row) ==
    [table |-> table, pending |-> pending \cup {row}]

\* tx.Commit: the transaction's rows become visible.
TxCommit(table, pending) == table \cup pending

\* tx.Rollback (deferred): the transaction's rows are discarded.
TxRollback(table, pending) == table


-----------------------------------------------------------------------------
(* Text helpers *)

Range(f) == {f[i] : i \in DOMAIN f}

Min(a, b) == IF a < b THEN a ELSE b

\* strings.Join over texts: the elements separated by the symbol sep.
RECURSIVE Join(_, _)
Join(parts, sep) ==
    IF Len(parts) = 0 THEN <<>>
    ELSE IF Len(parts) = 1 THEN parts[1]
    ELSE parts[1] \o <<sep>> \o Join(Tail(parts), sep)

IsPrefix(p, w) == Len(p) <= Len(w) /\ SubSeq(w, 1, Len(p)) = p

IsSubstring(p, w) ==
    \E i \in 0..Len(w) : i + Len(p) <= Len(w) /\ SubSeq(w, i + 1, i + Len(p)) = p

\* Case folding and the code points of the letters names are made of.
Lower(c) == IF c = "B" THEN "b" ELSE c
LowerText(t) == [i \in DOMAIN t |-> Lower(t[i])]
Code(c) == CASE c = "B" -> 66 [] c = "b" -> 98 [] c = "h" -> 104
             [] c = "o" -> 111 [] OTHER -> 0

RECURSIVE TextLess(_, _)
TextLess(x, y) ==
    IF Len(y) = 0 THEN FALSE
    ELSE IF Len(x) = 0 THEN TRUE
    ELSE IF Code(x[1]) # Code(y[1]) THEN Code(x[1]) < Code(y[1])
    ELSE TextLess(Tail(x), Tail(y))

\* LIMIT pageSize OFFSET offset over an ordered row sequence.
LimitOffset(seq, pageSize, offset) ==
    SubSeq(seq, offset + 1, Min(offset + pageSize, Len(seq)))

\* All orderings of a set of rows.
Orderings(S) ==
    {f \in [1..Cardinality(S) -> S] : \A i, j \in 1..Cardinality(S) : i # j => f[i] # f[j]}

-----------------------------------------------------------------------------
(* The store's reading of query text *)

Sym(x) == [k |-> "sym", v |-> <<x>>]

\* A string literal or quoted identifier: the symbols up to the closing
\* quote; a doubled quote stands for one quote inside it.
RECURSIVE LexQuoted(_, _, _, _)
LexQuoted(s, j, q, acc) ==
    IF j > Len(s) THEN [ok |-> FALSE, v |-> acc, next |-> j]
    ELSE IF s[j] = q
         THEN IF j + 1 <= Len(s) /\ s[j + 1] = q
              THEN LexQuoted(s, j + 2, q, Append(acc, q))
              ELSE [ok |-> TRUE, v |-> acc, next |-> j + 1]
    ELSE LexQuoted(s, j + 1, q, Append(acc, s[j]))

\* The tokens of a text: literals ('...'), quoted identifiers ("...") and
\* plain symbols; a "bad" token where a quote is never closed.
RECURSIVE Lex(_, _), LexAfterQuoted(_, _, _)
LexAfterQuoted(s, i, l) ==
    IF l.ok
    THEN <<[k |-> IF s[i] = "'" THEN "lit" ELSE "qid", v |-> l.v]>> \o Lex(s, l.next)
    ELSE <<[k |-> "bad", v |-> <<>>]>>

Lex(s, i) ==
    IF i > Len(s) THEN <<>>
    ELSE IF s[i] \in {"'", "\""}
         THEN LexAfterQuoted(s, i, LexQuoted(s, i + 1, s[i], <<>>))
    ELSE <<Sym(s[i])>> \o Lex(s, i + 1)

Fail == [ok |-> FALSE, val |-> FALSE, pos |-> 0]

IsOperand(tok) == tok.k = "lit" \/ tok = Sym("a.submission_status")

OperandValue(tok, row) ==
    IF tok.k = "lit" THEN tok.v ELSE <<row.submission_status>>

\* The WHERE condition of a row: OR of ANDs of comparisons and
\* parenthesised conditions.  [ok, val, pos]: whether the text from token i
\* reads as a condition, its value on the row, and the token after it.
RECURSIVE CondOr(_, _, _), CondAnd(_, _, _), CondPrim(_, _, _)

\* a, then "OR b" / "AND b" when the token after a is that connective.
Disjoin(a, b) ==
    IF b.ok THEN [ok |-> TRUE, val |-> a.val \/ b.val, pos |-> b.pos] ELSE Fail

Conjoin(a, b) ==
    IF b.ok THEN [ok |-> TRUE, val |-> a.val /\ b.val, pos |-> b.pos] ELSE Fail

CloseParen(t, e) ==
    IF e.ok /\ e.pos <= Len(t) /\ t[e.pos] = Sym(")")
    THEN [e EXCEPT !.pos = e.pos + 1]
    ELSE Fail

CondPrim(t, i, row) ==
    IF i > Len(t) THEN Fail
    ELSE IF t[i] = Sym("(") THEN CloseParen(t, CondOr(t, i + 1, row))
    ELSE IF i + 2 > Len(t) \/ t[i + 1] # Sym("=") \/ ~IsOperand(t[i]) THEN Fail
    ELSE IF t[i + 2] = Sym("ANY(a.categories)")
         THEN [ok |-> TRUE, val |-> OperandValue(t[i], row) \in row.categories,
               pos |-> i + 3]
    ELSE IF IsOperand(t[i + 2])
         THEN [ok |-> TRUE,
               val |-> OperandValue(t[i], row) = OperandValue(t[i + 2], row),
               pos |-> i + 3]
    ELSE Fail

AndRest(t, a, row) ==
    IF ~a.ok THEN Fail
    ELSE IF a.pos <= Len(t) /\ t[a.pos] = Sym("AND")
         THEN Conjoin(a, CondAnd(t, a.pos + 1, row))
    ELSE a

OrRest(t, a, row) ==
    IF ~a.ok THEN Fail
    ELSE IF a.pos <= Len(t) /\ t[a.pos] = Sym("OR")
         THEN Disjoin(a, CondOr(t, a.pos + 1, row))
    ELSE a

CondAnd(t, i, row) == AndRest(t, CondPrim(t, i, row), row)

CondOr(t, i, row) == OrRest(t, CondAnd(t, i, row), row)

\* A row the condition is read against when the table is empty.
ProbeRow == [submission_status |-> PENDING, categories |-> {}]

WholeText(t, e) == e.ok /\ e.pos = Len(t) + 1

WhereOK(t) == WholeText(t, CondOr(t, 1, ProbeRow))

WhereHolds(t, row) == CondOr(t, 1, row).val

\* ORDER BY items: a column of agents (a.name, a."quoted") or the output
\* column rank, each followed by ASC or DESC, separated by commas.  A quoted
\* identifier names a column only if it is spelled exactly like it.
RECURSIVE OrderItems(_, _)

OrderColumn(t, i) ==
    IF i <= Len(t) /\ t[i] = Sym("rank") THEN [ok |-> TRUE, c |-> "rank", n |-> i + 1]
    ELSE IF i + 1 <= Len(t) /\ t[i] = Sym("a.")
            /\ t[i + 1].k \in {"qid", "sym"} /\ Len(t[i + 1].v) = 1
            /\ t[i + 1].v[1] \in Range(AgentsColumns)
         THEN [ok |-> TRUE, c |-> t[i + 1].v[1], n |-> i + 2]
    ELSE [ok |-> FALSE, c |-> "", n |-> i]

PrependItem(item, rest) == [ok |-> rest.ok, items |-> <<item>> \o rest.items]

OrderItemsAt(t, col) ==
    IF ~col.ok \/ col.n > Len(t) \/ t[col.n] \notin {Sym("ASC"), Sym("DESC")}
    THEN [ok |-> FALSE, items |-> <<>>]
    ELSE IF col.n = Len(t)
         THEN [ok |-> TRUE, items |-> <<[col |-> col.c, dir |-> t[col.n].v[1]]>>]
    ELSE IF t[col.n + 1] # Sym(",") THEN [ok |-> FALSE, items |-> <<>>]
    ELSE PrependItem([col |-> col.c, dir |-> t[col.n].v[1]],
                     OrderItems(t, col.n + 2))

OrderItems(t, i) == OrderItemsAt(t, OrderColumn(t, i))

\* r1 sorts strictly before r2 on one column.
KeyLess(col, r1, r2) ==
    IF col = "name" THEN TextLess(r1.name, r2.name) ELSE r1[col] < r2[col]

\* r1 may stand before r2 under the ORDER BY items.
RECURSIVE MayPrecede(_, _, _)
MayPrecede(items, r1, r2) ==
    IF Len(items) = 0 THEN TRUE
    ELSE IF KeyLess(items[1].col, r1, r2) THEN items[1].dir = "ASC"
    ELSE IF KeyLess(items[1].col, r2, r1) THEN items[1].dir = "DESC"
    ELSE MayPrecede(Tail(items), r1, r2)

\* The orderings of a row set the store may deliver under the items.
Sorted(S, items) ==
    {f \in Orderings(S) :
        \A i \in 1..(Len(f) - 1) : MayPrecede(items, f[i], f[i + 1])}

\* The index of the first token equal to tok, 0 if there is none.
IndexOf(t, tok) ==
    IF \E i \in 1..Len(t) : t[i] = tok
    THEN CHOOSE i \in 1..Len(t) : t[i] = tok /\ \A j \in 1..(i - 1) : t[j] # tok
    ELSE 0

\* The points at which the store can fail a paged read: at the query, while
\* advancing after k rows, while scanning row k + 1; or not at all.
FaultPoints ==
    {[kind |-> "none", k |-> 0], [kind |-> "query", k |-> 0]}
      \cup {[kind |-> "iter", k |-> k] : k \in 0..MaxPageSize}
      \cup {[kind |-> "scan", k |-> k] : k \in 0..(MaxPageSize - 1)}

\* The fault points that exist on a page of n rows.
FaultAt(fault, n) ==
    CASE fault.kind = "iter" -> fault.k <= n
      [] fault.kind = "scan" -> fault.k < n
      [] OTHER -> TRUE

\* The row iteration of a paged read: rows.Next / rows.Scan over the page.
\* checksErr: the caller tests rows.Err() after the loop.
RowsLoop(page, columns, ndest, fault, checksErr) ==
    IF fault.kind = "query" THEN [err |-> "query failed", rows |-> <<>>]
    ELSE IF ~Scan(columns, ndest)
            /\ \/ fault.kind = "scan"
               \/ (IF fault.kind = "iter" THEN fault.k ELSE Len(page)) >= 1
         THEN [err |-> "scan failed", rows |-> <<>>]
    ELSE IF fault.kind = "scan" THEN [err |-> "scan failed", rows |-> <<>>]
    ELSE IF fault.kind = "iter" /\ checksErr
         THEN [err |-> "iteration failed", rows |-> <<>>]
    ELSE IF fault.kind = "iter" THEN [err |-> "", rows |-> SubSeq(page, 1, fault.k)]
    ELSE [err |-> "", rows |-> page]

-----------------------------------------------------------------------------
(* Init *)

Init ==
    /\ agents = {}
    /\ tracker = {}
    /\ featured = {}
    /\ clock = 0
    /\ nextID = 1
    /\ sub = Idle
    /\ tx = {}
    /\ call = NoCall
    /\ ret = NoRet

-----------------------------------------------------------------------------
(* SubmitAgent *)

\* agentWithMetadata: the record built from the request and three clock reads.
AgentWithMetadata(id, request, t1, t2, t3) ==
    [id |-> id, name |-> request.name, keywords |-> request.keywords,
     categories |-> request.categories, search |-> request.description,
     version |-> 1, created_at |-> t1, updated_at |-> t2,
     submission_date |-> t3, submission_status |-> PENDING]

\* What SubmitAgent returns: the record on success, nil and the error otherwise.
SubmitRet(err, stage, rec) ==
    [op |-> "SubmitAgent", err |-> err,
     rows |-> IF err = "" THEN <<rec>> ELSE <<>>, total |-> 0,
     args |-> [id |-> rec.id, stage |-> stage]]

\* Entry: uuid.New(), the Agent and AgentWithMetadata structs.
SubmitAgentStart ==
    /\ sub.pc = "idle"
    /\ nextID <= MaxAgents
    /\ \E request \in Requests, d1 \in 0..MaxDrift, d2 \in 0..MaxDrift :
         /\ clock + d1 + d2 <= MaxClock
         /\ sub' = [pc |-> "begin", cancelled |-> FALSE,
                    rec |-> AgentWithMetadata(nextID, request, clock,
                                              clock + d1, clock + d1 + d2)]
         /\ clock' = clock + d1 + d2
    /\ nextID' = nextID + 1
    /\ UNCHANGED <<agents, tracker, featured, tx, call, ret>>

\* db.Begin(ctx)
SubmitAgentBegin ==
    /\ sub.pc = "begin"
    /\ \E ok \in BOOLEAN :
         /\ sub.cancelled => ~ok
         /\ IF ok
            THEN /\ sub' = [sub EXCEPT !.pc = "exec"]
                 /\ tx' = {}
                 /\ ret' = ret
            ELSE /\ sub' = Idle
                 /\ tx' = {}
                 /\ ret' = SubmitRet("begin failed", "begin", sub.rec)
    /\ UNCHANGED <<agents, tracker, featured, clock, nextID, call>>

\* tx.Exec(ctx, INSERT ...); on failure the deferred tx.Rollback runs.
SubmitAgentExec ==
    /\ sub.pc = "exec"
    /\ \E ok \in BOOLEAN :
         /\ sub.cancelled => ~ok
         /\ IF ok
            THEN LET w == InsertRow(agents, tx, sub.rec) IN
                 /\ agents' = w.table
                 /\ tx' = w.pending
                 /\ sub' = [sub EXCEPT !.pc = "commit"]
                 /\ ret' = ret
            ELSE /\ agents' = TxRollback(agents, tx)
                 /\ tx' = {}
                 /\ sub' = Idle
                 /\ ret' = SubmitRet("insert failed", "insert", sub.rec)
    /\ UNCHANGED <<tracker, featured, clock, nextID, call>>

\* tx.Commit(ctx); on failure the deferred tx.Rollback runs.
SubmitAgentCommit ==
    /\ sub.pc = "commit"
    /\ \E ok \in BOOLEAN :
         /\ sub.cancelled => ~ok
         /\ IF ok
            THEN /\ agents' = TxCommit(agents, tx)
                 /\ ret' = SubmitRet("", "ok", sub.rec)
            ELSE /\ agents' = TxRollback(agents, tx)
                 /\ ret' = SubmitRet("commit failed", "commit", sub.rec)
         /\ tx' = {}
         /\ sub' = Idle
    /\ UNCHANGED <<tracker, featured, clock, nextID, call>>

\* The caller cancels ctx while the call is in flight.
Cancel ==
    /\ sub.pc # "idle"
    /\ ~sub.cancelled
    /\ sub' = [sub EXCEPT !.cancelled = TRUE]
    /\ UNCHANGED <<agents, tracker, featured, clock, nextID, tx, call, ret>>

\* A write lands while a two-query read is between its queries.
NoteWrite == IF call.pc = "count" THEN [call EXCEPT !.wrote = TRUE] ELSE call

\* The external moderation process advances a row's submission_status.
Moderate ==
    /\ \E r \in agents, s \in {APPROVED, REJECTED} :
         /\ r.submission_status # s
         /\ agents' = (agents \ {r}) \cup {[r EXCEPT !.submission_status = s]}
    /\ ret' = NoRet
    /\ call' = NoteWrite
    /\ UNCHANGED <<tracker, featured, clock, nextID, sub, tx>>

\* Time passes.
Tick ==
    /\ clock < MaxClock
    /\ clock' = clock + 1
    /\ UNCHANGED <<agents, tracker, featured, nextID, sub, tx, call, ret>>

-----------------------------------------------------------------------------
(* GetAgentDetails, GetAgentFile *)

DetailsColumns ==
    <<"id", "name", "description", "author", "keywords", "categories", "graph",
      "version", "created_at", "updated_at", "submission_date",
      "submission_status">>

FileColumns == <<"id", "name", "graph">>

\* db.QueryRow(ctx, "... WHERE id = $1", agentID).Scan(dests...)
QueryRowByID(op, columns, ndest, agentID, fault) ==
    LET found == RowsByID(agents, agentID) IN
    IF fault THEN [op |-> op, err |-> "query failed", rows |-> <<>>,
                   total |-> 0, args |-> [id |-> agentID]]
    ELSE IF found = {} THEN [op |-> op, err |-> "agent not found", rows |-> <<>>,
                             total |-> 0, args |-> [id |-> agentID]]
    ELSE IF ~Scan(columns, ndest) THEN [op |-> op, err |-> "scan failed",
                                        rows |-> <<>>, total |-> 0,
                                        args |-> [id |-> agentID]]
    ELSE [op |-> op, err |-> "", rows |-> <<CHOOSE r \in found : TRUE>>,
          total |-> 0, args |-> [id |-> agentID]]

GetAgentDetails ==
    /\ ret.op = "none"
    /\ \E agentID \in 1..MaxAgents, fault \in BOOLEAN :
         ret' = QueryRowByID("GetAgentDetails", DetailsColumns, 12, agentID, fault)
    /\ UNCHANGED <<agents, tracker, featured, clock, nextID, sub, tx, call>>

GetAgentFile ==
    /\ ret.op = "none"
    /\ \E agentID \in 1..MaxAgents, fault \in BOOLEAN :
         ret' = QueryRowByID("GetAgentFile", FileColumns, 3, agentID, fault)
    /\ UNCHANGED <<agents, tracker, featured, clock, nextID, sub, tx, call>>



-----------------------------------------------------------------------------
(* GetAgents *)

\* name ILIKE '%' || $3 || '%'
ILikeContains(name, pattern) == IsSubstring(LowerText(pattern), LowerText(name))

\* The WHERE clause of GetAgents with its three optional bound parameters.
GetAgentsWhere(r, name, keywords, categories) ==
    /\ r.submission_status = APPROVED
    /\ (name = Null \/ ILikeContains(r.name, name))
    /\ (keywords = Null \/ keywords \in r.keywords)
    /\ (categories = Null \/ categories \in r.categories)

CreatedAtDesc == <<[col |-> "created_at", dir |-> "DESC"]>>

NameFilters == {Null, <<"b">>, <<"x">>}
KeywordFilters == {Null, KeyK}
CategoryFilters == {Null, CatA}

PagedRet(op, err, rows, total, args) ==
    [op |-> op, err |-> err, rows |-> IF err = "" THEN rows ELSE <<>>,
     total |-> IF err = "" THEN total ELSE 0, args |-> args]

\* The caller takes the result of the call that returned.
TakeResult ==
    /\ ret.op # "none"
    /\ ret' = NoRet
    /\ UNCHANGED <<agents, tracker, featured, clock, nextID, sub, tx, call>>

\* The loop over the page and the return.
GetAgentsReturn(pg, fault, args) ==
    /\ FaultAt(fault, Len(pg))
    /\ ret' = PagedRet("GetAgents",
                       RowsLoop(pg, AgentsColumns, 7, fault, TRUE).err,
                       RowsLoop(pg, AgentsColumns, 7, fault, TRUE).rows, 0, args)

\* SELECT * FROM agents ... scanned into the seven fields of models.Agent.
GetAgents ==
    /\ ret.op = "none"
    /\ \E page \in 1..MaxPage, pageSize \in 1..MaxPageSize,
          name \in NameFilters, keywords \in KeywordFilters,
          categories \in CategoryFilters, fault \in FaultPoints :
         \E seq \in Sorted({r \in agents :
                              GetAgentsWhere(r, name, keywords, categories)},
                           CreatedAtDesc) :
            GetAgentsReturn(LimitOffset(seq, pageSize, (page - 1) * pageSize),
                            fault,
                            [page |-> page, pageSize |-> pageSize, name |-> name,
                             keywords |-> keywords, categories |-> categories,
                             fault |-> fault.kind])
    /\ UNCHANGED <<agents, tracker, featured, clock, nextID, sub, tx, call>>

-----------------------------------------------------------------------------
(* Search *)

SearchColumns ==
    <<"id", "created_at", "updated_at", "version", "name", "description",
      "author", "keywords", "categories", "graph", "submission_status",
      "submission_date", "rank">>

\* categoryFilter: each category formatted into a quoted comparison, the
\* comparisons joined by OR inside "AND ( ... )"; empty for no categories.
categoryFilter(categories) ==
    IF Len(categories) > 0
    THEN <<"AND", "(">>
           \o Join([i \in 1..Len(categories) |->
                       <<"'">> \o categories[i] \o <<"'", "=", "ANY(a.categories)">>],
                   "OR")
           \o <<")">>
    ELSE <<>>

\* orderByClause, by the switch on sortBy.
orderByClause(sortBy, sortOrder) ==
    CASE sortBy \in {"createdAt", "updatedAt"} ->
           <<"a.", "\"", sortBy, "\"", sortOrder, ",", "rank", "DESC">>
      [] sortBy = "name" ->
           <<"a.", "name", sortOrder, ",", "rank", "DESC">>
      [] OTHER ->
           <<"rank", "DESC", ",", "a.", "\"", "createdAt", "\"", "DESC">>

\* sqlQuery: the statement text with both clauses formatted in.
sqlQuery(categories, sortBy, sortOrder) ==
    <<"WITH query AS (...) SELECT ... FROM agents a, query", "WHERE",
      "a.submission_status", "=", "'", "APPROVED", "'">>
      \o categoryFilter(categories)
      \o <<"ORDER BY">> \o orderByClause(sortBy, sortOrder)
      \o <<"LIMIT", "$2", "OFFSET", "$3">>

\* to_tsvector($1): the lexemes of the query text.
ToTsvector(text) == Range(text)

\* A vector matches a prefix term if one of its lexemes starts with it.
TermMatches(term, search) == \E l \in search : IsPrefix(term, l)

\* ts_rank(search, q) for q the AND of the prefix terms: the number of
\* (term, lexeme) matches.
TsRank(search, q) ==
    Cardinality({p \in q \X search : IsPrefix(p[1], p[2])})

\* The store executing the Search statement: the text is read, the WHERE
\* condition selects the rows, each row gets its rank.
Rejected == [ok |-> FALSE, rows |-> {}, items |-> <<>>]

SelectRows(cond, order, query) ==
    IF ~WhereOK(cond) \/ ~order.ok THEN Rejected
    ELSE [ok |-> TRUE,
          rows |-> {[id |-> r.id, name |-> r.name, categories |-> r.categories,
                     submission_status |-> r.submission_status,
                     created_at |-> r.created_at, updated_at |-> r.updated_at,
                     rank |-> TsRank(r.search, ToTsvector(query))] :
                      r \in {x \in agents : WhereHolds(cond, x)}},
          items |-> order.items]

ReadClauses(t, w, o, l, query) ==
    IF (\E i \in 1..Len(t) : t[i].k = "bad") \/ ~(0 < w /\ w < o /\ o < l)
    THEN Rejected
    ELSE SelectRows(SubSeq(t, w + 1, o - 1),
                    OrderItems(SubSeq(t, o + 1, l - 1), 1), query)

ReadStatement(t, query) ==
    ReadClauses(t, IndexOf(t, Sym("WHERE")), IndexOf(t, Sym("ORDER BY")),
                IndexOf(t, Sym("LIMIT")), query)

StoreSearch(sql, query) == ReadStatement(Lex(sql, 1), query)

\* Query texts, as the words the text engine splits them into.
QueryTexts == {<< <<"f">> >>, << <<"f">>, <<"b">> >>}

\* Category values a caller can supply: any text.
Quote == <<"'">>
AlwaysTrue == <<"'", "=", "'", "'", "OR", "'">>
Escape == <<"a", "'", "=", "ANY(a.categories)", ")", "OR", "(", "'", "a">>
CategoryLists ==
    {<<>>, <<CatA>>, <<CatB>>, <<CatA, CatB>>, <<Quote>>, <<AlwaysTrue>>, <<Escape>>}

SortBys == {"createdAt", "updatedAt", "name", ""}
SortOrders == {"ASC", "DESC"}

\* The loop over the page and the return.
SearchReturn(pg, fault, args) ==
    /\ FaultAt(fault, Len(pg))
    /\ ret' = PagedRet("Search",
                       RowsLoop(pg, SearchColumns, 13, fault, FALSE).err,
                       RowsLoop(pg, SearchColumns, 13, fault, FALSE).rows, 0, args)

\* db.Query(ctx, sqlQuery, query, pageSize, offset) and what follows it.
SearchQuery(q, pageSize, offset, fault, args) ==
    \/ /\ fault.kind = "query"
       /\ ret' = PagedRet("Search", "query failed", <<>>, 0, args)
    \/ /\ fault.kind = "none" /\ ~q.ok
       /\ ret' = PagedRet("Search", "query rejected", <<>>, 0, args)
    \/ /\ fault.kind # "query" /\ q.ok
       /\ \E seq \in Sorted(q.rows, q.items) :
            SearchReturn(LimitOffset(seq, pageSize, offset), fault, args)

Search ==
    /\ ret.op = "none"
    /\ \E query \in QueryTexts, categories \in CategoryLists,
          page \in 1..MaxPage, pageSize \in 1..MaxPageSize,
          sortBy \in SortBys, sortOrder \in SortOrders, fault \in FaultPoints :
         SearchQuery(StoreSearch(sqlQuery(categories, sortBy, sortOrder), query),
                     pageSize, (page - 1) * pageSize, fault,
                     [query |-> query, categories |-> categories, page |-> page,
                      pageSize |-> pageSize, sortBy |-> sortBy,
                      sortOrder |-> sortOrder, fault |-> fault.kind,
                      sql |-> sqlQuery(categories, sortBy, sortOrder)])
    /\ UNCHANGED <<agents, tracker, featured, clock, nextID, sub, tx, call>>

-----------------------------------------------------------------------------
(* GetTopAgentsByDownloads, GetFeaturedAgents *)

\* The external analytics aggregate records a download of an agent.
TrackDownloads ==
    /\ \E r \in agents :
         IF \E a \in tracker : a.agent_id = r.id
         THEN \E a \in tracker :
                /\ a.agent_id = r.id
                /\ a.downloads < MaxDownloads
                /\ tracker' = (tracker \ {a})
                                \cup {[a EXCEPT !.downloads = a.downloads + 1]}
         ELSE tracker' = tracker \cup {[agent_id |-> r.id, downloads |-> 1]}
    /\ ret' = NoRet
    /\ call' = NoteWrite
    /\ UNCHANGED <<agents, featured, clock, nextID, sub, tx>>

\* The external curation: an agent is featured in its categories, and its
\* row is switched between active and inactive.
Curate ==
    /\ \E r \in agents :
         IF \E fa \in featured : fa.agent_id = r.id
         THEN \E fa \in featured :
                /\ fa.agent_id = r.id
                /\ featured' = (featured \ {fa})
                                 \cup {[fa EXCEPT !.is_active = ~fa.is_active]}
         ELSE featured' = featured \cup {[agent_id |-> r.id,
                                         featured_categories |-> r.categories,
                                         is_active |-> TRUE]}
    /\ ret' = NoRet
    /\ call' = NoteWrite
    /\ UNCHANGED <<agents, tracker, clock, nextID, sub, tx>>

TopColumns ==
    <<"id", "name", "description", "author", "keywords", "categories", "graph",
      "downloads">>

FeaturedColumns ==
    <<"id", "name", "description", "author", "keywords", "categories", "graph">>

\* agents a JOIN analytics_tracker at ON a.id = at.agent_id
\* WHERE a.submission_status = 'APPROVED'
TopRows ==
    {[id |-> r.id, name |-> r.name, categories |-> r.categories,
      downloads |-> a.downloads] :
        <<r, a>> \in {p \in agents \X tracker :
                        /\ p[1].id = p[2].agent_id
                        /\ p[1].submission_status = APPROVED}}

DownloadsDesc == <<[col |-> "downloads", dir |-> "DESC"]>>

\* agents a JOIN featured_agent fa ON a.id = fa.agent_id WHERE
\* $1 = ANY(fa.featured_categories) AND fa.is_active AND a is APPROVED
FeaturedJoin(category) ==
    {p \in agents \X featured :
        /\ p[1].id = p[2].agent_id
        /\ category \in p[2].featured_categories
        /\ p[2].is_active
        /\ p[1].submission_status = APPROVED}

FeaturedRows(category) ==
    {[id |-> p[1].id, name |-> p[1].name, categories |-> p[1].categories,
      created_at |-> p[1].created_at] : p \in FeaturedJoin(category)}

\* SELECT COUNT(*) FROM agents WHERE submission_status = 'APPROVED'
TopCount == Cardinality({r \in agents : r.submission_status = APPROVED})

\* SELECT COUNT(*) FROM featured_agent fa JOIN agents a ... (same condition)
FeaturedCount(category) == Cardinality(FeaturedJoin(category))

\* The page query and its loop: a failure returns at once, otherwise the
\* count query is still to come.
PageQueried(op, loop, args) ==
    IF loop.err # ""
    THEN /\ ret' = PagedRet(op, loop.err, <<>>, 0, args)
         /\ call' = call
    ELSE /\ call' = [pc |-> "count", op |-> op, rows |-> loop.rows,
                     args |-> args, wrote |-> FALSE]
         /\ ret' = ret

GetTopAgentsByDownloadsPage ==
    /\ ret.op = "none"
    /\ call.pc = "idle"
    /\ \E page \in 1..MaxPage, pageSize \in 1..MaxPageSize, fault \in FaultPoints :
         \E seq \in Sorted(TopRows, DownloadsDesc) :
            /\ FaultAt(fault, Len(LimitOffset(seq, pageSize, (page - 1) * pageSize)))
            /\ PageQueried("GetTopAgentsByDownloads",
                           RowsLoop(LimitOffset(seq, pageSize, (page - 1) * pageSize),
                                    TopColumns, 8, fault, FALSE),
                           [page |-> page, pageSize |-> pageSize,
                            category |-> Null, fault |-> fault.kind])
    /\ UNCHANGED <<agents, tracker, featured, clock, nextID, sub, tx>>

GetFeaturedAgentsPage ==
    /\ ret.op = "none"
    /\ call.pc = "idle"
    /\ \E category \in {CatA, CatB}, page \in 1..MaxPage,
          pageSize \in 1..MaxPageSize, fault \in FaultPoints :
         \E seq \in Sorted(FeaturedRows(category), CreatedAtDesc) :
            /\ FaultAt(fault, Len(LimitOffset(seq, pageSize, (page - 1) * pageSize)))
            /\ PageQueried("GetFeaturedAgents",
                           RowsLoop(LimitOffset(seq, pageSize, (page - 1) * pageSize),
                                    FeaturedColumns, 7, fault, FALSE),
                           [page |-> page, pageSize |-> pageSize,
                            category |-> category, fault |-> fault.kind])
    /\ UNCHANGED <<agents, tracker, featured, clock, nextID, sub, tx>>

\* The count query and the return.
CountQueried(totalCount) ==
    /\ \E ok \in BOOLEAN :
         ret' = PagedRet(call.op, IF ok THEN "" ELSE "count failed", call.rows,
                         totalCount,
                         [page |-> call.args.page, pageSize |-> call.args.pageSize,
                          category |-> call.args.category,
                          fault |-> IF ok THEN call.args.fault ELSE "count",
                          wrote |-> call.wrote])
    /\ call' = NoCall

GetTopAgentsByDownloadsCount ==
    /\ call.pc = "count"
    /\ call.op = "GetTopAgentsByDownloads"
    /\ CountQueried(TopCount)
    /\ UNCHANGED <<agents, tracker, featured, clock, nextID, sub, tx>>

GetFeaturedAgentsCount ==
    /\ call.pc = "count"
    /\ call.op = "GetFeaturedAgents"
    /\ CountQueried(FeaturedCount(call.args.category))
    /\ UNCHANGED <<agents, tracker, featured, clock, nextID, sub, tx>>

-----------------------------------------------------------------------------
(* The paged reads over every table content the write path can leave *)

\* The rows identifier id can have: submitted at one clock value, in any
\* moderation state.
StoredRows(id) ==
    {[AgentWithMetadata(id, rq, t, t, t) EXCEPT !.submission_status = s] :
        rq \in Requests, t \in 0..MaxCreated, s \in SubmissionStatus}

\* Tables with at most one row per identifier, later identifiers not older.
Tables ==
    UNION {{Range(f) : f \in {g \in [D -> UNION {StoredRows(id) : id \in D}] :
                                \A i, j \in D :
                                    /\ g[i].id = i
                                    /\ (i < j => g[i].created_at <= g[j].created_at)}} :
           D \in SUBSET (1..MaxAgents)}

InitRead ==
    /\ agents \in Tables
    /\ tracker = {}
    /\ featured = {}
    /\ clock = MaxClock
    /\ nextID = MaxAgents + 1
    /\ sub = Idle
    /\ tx = {}
    /\ call = NoCall
    /\ ret = NoRet

NextRead ==
    \/ GetAgents
    \/ Search
    \/ TakeResult

SpecRead == InitRead /\ [][NextRead]_vars

\* The two-query reads, with the external writers running beside them.
NextCount ==
    \/ GetTopAgentsByDownloadsPage
    \/ GetTopAgentsByDownloadsCount
    \/ GetFeaturedAgentsPage
    \/ GetFeaturedAgentsCount
    \/ TakeResult
    \/ Moderate
    \/ TrackDownloads
    \/ Curate

SpecCount == InitRead /\ [][NextCount]_vars

-----------------------------------------------------------------------------
(* Claims about SubmitAgent and the reads by identifier *)

InFlight == sub.pc \in {"begin", "exec", "commit"}

\* C1: SubmitAgent is all-or-nothing. While the call is in flight no row
\* with the generated id is visible; a step on which the call returns a
\* failure (begin, insert or commit failed) leaves table agents as it was;
\* a call whose caller cancelled returns a failure; a row with the
\* generated id appears only on the step on which commit succeeds; and after
\* a failed call no row with its id exists.
C1_SubmitAllOrNothing ==
    [][ /\ InFlight => RowsByID(agents, sub.rec.id) = {}
        /\ (InFlight /\ sub'.pc = "idle") => ret'.op = "SubmitAgent"
        /\ (InFlight /\ sub'.pc = "idle" /\ ret'.err # "") =>
               /\ agents' = agents
               /\ RowsByID(agents', sub.rec.id) = {}
        /\ (InFlight /\ sub'.pc = "idle" /\ sub.cancelled) => ret'.err # ""
        /\ (InFlight /\ RowsByID(agents', sub.rec.id) # {}) =>
               /\ sub.pc = "commit"
               /\ ret'.op = "SubmitAgent"
               /\ ret'.err = ""
               /\ agents' = agents \cup {sub.rec}
        /\ (ret.op = "SubmitAgent" /\ ret.err # "") =>
               RowsByID(agents, ret.args.id) = {}
      ]_vars

\* A submission failed at commit, after its insert succeeded, over a table
\* that already holds a row.
C1_Witness ==
    /\ ret.op = "SubmitAgent"
    /\ ret.args.stage = "commit"
    /\ ret.err # ""
    /\ agents # {}

ReadOps ==
    {"GetAgents", "GetAgentDetails", "GetAgentFile", "GetTopAgentsByDownloads",
     "GetFeaturedAgents", "Search"}

StatusOf(id) == {r.submission_status : r \in RowsByID(agents, id)}

\* C2: every record a read operation returns belongs to an entry whose
\* submission_status is APPROVED; a PENDING or REJECTED entry is never
\* returned.
C2_OnlyApprovedVisible ==
    (ret.op \in ReadOps /\ ret.err = "") =>
        \A i \in 1..Len(ret.rows) : StatusOf(ret.rows[i].id) = {APPROVED}

\* C3: GetAgentDetails of a submitted, not yet moderated entry returns
\* version 1, status PENDING and created_at = updated_at = submission_date.
C3_FreshRecordTimes ==
    (ret.op = "GetAgentDetails" /\ ret.err = ""
        /\ ret.rows[1].submission_status = PENDING) =>
        /\ ret.rows[1].version = 1
        /\ ret.rows[1].created_at = ret.rows[1].updated_at
        /\ ret.rows[1].updated_at = ret.rows[1].submission_date


-----------------------------------------------------------------------------
(* Claims about the paged reads *)

SearchVector(id) == UNION {r.search : r \in RowsByID(agents, id)}

ReturnedIDs == {ret.rows[i].id : i \in 1..Len(ret.rows)}

\* C4: every agent Search returns has, for each lexeme of the query text, a
\* lexeme in its search vector that starts with it.
C4_SearchTextPredicate ==
    (ret.op = "Search" /\ ret.err = "") =>
        \A i \in 1..Len(ret.rows) :
            \A term \in ToTsvector(ret.args.query) :
                TermMatches(term, SearchVector(ret.rows[i].id))

\* C5: with a non-empty category list every agent Search returns has a
\* category in the list; with an empty list no agent is left out for its
\* categories (a first page large enough for the whole table holds every
\* APPROVED agent matching the text).
C5_CategoryIntersection ==
    (ret.op = "Search" /\ ret.err = "") =>
        /\ Len(ret.args.categories) > 0 =>
              \A i \in 1..Len(ret.rows) :
                  ret.rows[i].categories \cap Range(ret.args.categories) # {}
        /\ (Len(ret.args.categories) = 0 /\ ret.args.fault = "none"
              /\ ret.args.page = 1 /\ ret.args.pageSize >= Cardinality(agents)) =>
              \A r \in agents :
                  (/\ r.submission_status = APPROVED
                   /\ \A term \in ToTsvector(ret.args.query) :
                          TermMatches(term, r.search))
                      => r.id \in ReturnedIDs

\* The ordering the sort arguments stand for.
ClaimedOrder(sortBy, sortOrder) ==
    CASE sortBy = "createdAt" ->
           <<[col |-> "created_at", dir |-> sortOrder], [col |-> "rank", dir |-> "DESC"]>>
      [] sortBy = "updatedAt" ->
           <<[col |-> "updated_at", dir |-> sortOrder], [col |-> "rank", dir |-> "DESC"]>>
      [] sortBy = "name" ->
           <<[col |-> "name", dir |-> sortOrder], [col |-> "rank", dir |-> "DESC"]>>
      [] OTHER ->
           <<[col |-> "rank", dir |-> "DESC"], [col |-> "created_at", dir |-> "DESC"]>>

PlainCategories(categories) ==
    \A i \in 1..Len(categories) : categories[i] \in {CatA, CatB}

\* C6: a Search the store does not fail returns its results ordered by the
\* sort key in the caller's sort order with rank descending as tie-break
\* (createdAt, updatedAt, name), and by rank descending then creation time
\* descending for any other sortBy.
C6_SearchOrdering ==
    (ret.op = "Search" /\ ret.args.fault = "none"
        /\ PlainCategories(ret.args.categories)) =>
        /\ ret.err = ""
        /\ \A i \in 1..(Len(ret.rows) - 1) :
               MayPrecede(ClaimedOrder(ret.args.sortBy, ret.args.sortOrder),
                          ret.rows[i], ret.rows[i + 1])

\* C7: a GetAgents the store does not fail returns exactly the requested
\* page of the APPROVED entries that satisfy every supplied filter, newest
\* created first.
C7_ListAgentsPage ==
    (ret.op = "GetAgents" /\ ret.args.fault = "none") =>
        /\ ret.err = ""
        /\ \E seq \in Sorted({r \in agents :
                                GetAgentsWhere(r, ret.args.name, ret.args.keywords,
                                               ret.args.categories)},
                             CreatedAtDesc) :
               ret.rows = LimitOffset(seq, ret.args.pageSize,
                                      (ret.args.page - 1) * ret.args.pageSize)

\* C8: the statement text Search composes does not depend on the category
\* values: any other list of as many categories gives the same text.
C8_CategoriesAreBound ==
    ret.op = "Search" =>
        \A other \in CategoryLists :
            Len(other) = Len(ret.args.categories) =>
                sqlQuery(other, ret.args.sortBy, ret.args.sortOrder) = ret.args.sql

PagedOps == {"GetAgents", "GetTopAgentsByDownloads", "GetFeaturedAgents", "Search"}

\* C10: when no write lands between the page query and the count query,
\* the totalCount of GetTopAgentsByDownloads and of GetFeaturedAgents is the
\* number of rows its page query ranges over.
C10_TotalCountsQualifying ==
    (ret.err = "" /\ ret.op \in {"GetTopAgentsByDownloads", "GetFeaturedAgents"}
        /\ ~ret.args.wrote) =>
        ret.total = IF ret.op = "GetTopAgentsByDownloads"
                    THEN Cardinality(TopRows)
                    ELSE Cardinality(FeaturedRows(ret.args.category))

\* C9: a paged read during which the store failed (at the query, while
\* advancing, while scanning, at the count) returns a failure and no rows.
C9_FailureReturned ==
    (ret.op \in PagedOps /\ ret.args.fault # "none") =>
        /\ ret.err # ""
        /\ ret.rows = <<>>

-----------------------------------------------------------------------------
Next ==
    \/ SubmitAgentStart
    \/ SubmitAgentBegin
    \/ SubmitAgentExec
    \/ SubmitAgentCommit
    \/ Cancel
    \/ Moderate
    \/ Tick
    \/ GetAgentDetails
    \/ GetAgentFile
    \/ TakeResult

Spec == Init /\ [][Next]_vars

====
